---- MODULE Spec2Model ----
(***************************************************************************)
(* soapysdr-sys/wrapper.c: _rust_wrapper_SoapySDRDevice_setupStream.       *)
(*                                                                         *)
(* The wrapper gives one signature to the two calling conventions of the   *)
(* library's SoapySDRDevice_setupStream.  Which of its two bodies is       *)
(* compiled is decided by SOAPY_SDR_API_VERSION.  The library is external: *)
(* its results (status, handle, whether the legacy entry point writes the  *)
(* output parameter, whether its last status is per thread or shared) are  *)
(* nondeterministic inputs.  Each calling thread is a process whose        *)
(* position in the wrapper is pc[t].                                       *)
(***************************************************************************)
EXTENDS Integers, Sequences, FiniteSets, TLC

\* number of threads that call the wrapper
NumThreads == 2

Threads == 1..NumThreads

\* 0x00080000, the version at which the calling convention changed
ApiThreshold == 524288

\* SOAPY_SDR_API_VERSION of the builds considered: the last version below
\* the threshold and the threshold itself
ApiVersions == {ApiThreshold - 1, ApiThreshold}

\* SoapySDRStream* values: the null pointer and a non-null handle (0xABCD)
Handles == {0, 43981}

\* int status codes the library reports: success and an error
Statuses == {0, -1}

IsSuccess(s) == s = 0

Usable(h) == h # 0

\* the wrapper's parameters other than out_stream, as thread t's caller
\* passes them: each thread sets up a stream of its own
CallerArgs(t) ==
    IF t % 2 = 1
    THEN [device |-> 1, direction |-> 1, format |-> "CF32",
          channels |-> <<0, 1>>, numChans |-> 2, args |-> << >>]
    ELSE [device |-> 1, direction |-> 0, format |-> "CS16",
          channels |-> <<1>>, numChans |-> 1,
          args |-> << <<"bufflen", "4096">> >>]

NoArgs == [device |-> 0, direction |-> 0, format |-> "",
           channels |-> << >>, numChans |-> 0, args |-> << >>]

NoOutcome == [status |-> 0, delivered |-> FALSE, handle |-> 0]

VARIABLES
    apiVersion,   \* SOAPY_SDR_API_VERSION of the build
    sharedStatus, \* TRUE: the library keeps one last status for all threads
    lastStatus,   \* the library's last status, per cell (0 shared, t thread t)
    pc,           \* position of each thread in the wrapper
    params,       \* the wrapper's arguments in the current invocation
    slot,         \* the caller's SoapySDRStream* that out_stream points to
    ret,          \* value the wrapper returned, << >> while none
    calls,        \* calls the invocation made into the library, in order
    stores,       \* stores the wrapper itself made through out_stream
    own,          \* what the library produced in this invocation's setup call
    interfered,   \* another thread's setup call fell between setup and query
    entryStatus   \* the thread's last status when the invocation began

vars == <<apiVersion, sharedStatus, lastStatus, pc, params, slot, ret, calls,
          stores, own, interfered, entryStatus>>

LegacyBuild_Inclusive == apiVersion <= ApiThreshold

\* #if SOAPY_SDR_API_VERSION < 0x00080000
LegacyBuild == apiVersion < ApiThreshold

\* the last-status cell thread t reads and writes
StatusKey(t) == IF sharedStatus THEN 0 ELSE t

\* SoapySDRDevice_lastStatus()
LastStatusQuery(t) == lastStatus[StatusKey(t)]

\* arguments of SoapySDRDevice_setupStream(device, out_stream, direction,
\* format, channels, numChans, args); out_stream designates slot[t]
LegacyCallArgs(t, a) ==
    [device |-> a.device, stream |-> t, direction |-> a.direction,
     format |-> a.format, channels |-> a.channels, numChans |-> a.numChans,
     args |-> a.args]

ModernCallArgs_Truncated(t, a) ==
    [device |-> a.device, direction |-> a.direction,
     format |-> a.format, channels |-> SubSeq(a.channels, 1, 1),
     numChans |-> 1, args |-> a.args]

\* arguments of SoapySDRDevice_setupStream(device, direction, format,
\* channels, numChans, args)
ModernCallArgs(t, a) ==
    [device |-> a.device, direction |-> a.direction,
     format |-> a.format, channels |-> a.channels, numChans |-> a.numChans,
     args |-> a.args]

LegacyCalls_Retry(t, s) ==
    IF IsSuccess(s)
    THEN << [fn |-> "setupStream", args |-> LegacyCallArgs(t, params[t]),
             result |-> s] >>
    ELSE << [fn |-> "setupStream", args |-> LegacyCallArgs(t, params[t]),
             result |-> s],
            [fn |-> "setupStream", args |-> LegacyCallArgs(t, params[t]),
             result |-> s] >>

\* the calls the legacy body makes into the library; s is what the library
\* returns
LegacyCalls(t, s) ==
    << [fn |-> "setupStream", args |-> LegacyCallArgs(t, params[t]),
        result |-> s] >>

LegacyReturn_Magnitude(t, s) == IF s < 0 THEN -s ELSE s

LegacyReturn_LastStatus(t, s) == LastStatusQuery(t)

\* return SoapySDRDevice_setupStream(...): the value the library returned
LegacyReturn(t, s) == s

ModernStored_IfUsable(t, h) == IF Usable(h) THEN h ELSE slot[t]

\* *out_stream = SoapySDRDevice_setupStream(...): the value stored, h being
\* what the library returned
ModernStored(t, h) == h

ModernReturnCalls_Twice(t) ==
    << [fn |-> "lastStatus", args |-> NoArgs, result |-> LastStatusQuery(t)],
       [fn |-> "lastStatus", args |-> NoArgs, result |-> LastStatusQuery(t)] >>

\* the calls the modern body's return statement makes into the library
ModernReturnCalls(t) ==
    << [fn |-> "lastStatus", args |-> NoArgs, result |-> LastStatusQuery(t)] >>

ModernReturn_FromHandle(t, q) == IF Usable(slot[t]) THEN 0 ELSE -1

ModernReturn_AlwaysSuccess(t, q) == 0

ModernReturn_Sticky(t, q) ==
    IF IsSuccess(entryStatus[t]) THEN q ELSE entryStatus[t]

\* return SoapySDRDevice_lastStatus(): q is what the query returned
ModernReturn(t, q) == q

TypeOK ==
    /\ apiVersion \in ApiVersions
    /\ sharedStatus \in BOOLEAN
    /\ lastStatus \in [0..NumThreads -> Statuses]
    /\ pc \in [Threads -> {"idle", "entered", "setupDone", "stored", "returned"}]
    /\ slot \in [Threads -> Handles]
    /\ stores \in [Threads -> 0..1]
    /\ interfered \in [Threads -> BOOLEAN]
    /\ entryStatus \in [Threads -> Statuses]
    /\ \A t \in Threads :
         /\ params[t] \in {CallerArgs(t), NoArgs}
         /\ ret[t] \in {<< >>} \cup {<<s>> : s \in Statuses}
         /\ Len(calls[t]) <= 2
         /\ own[t].status \in Statuses
         /\ own[t].delivered \in BOOLEAN
         /\ own[t].handle \in Handles

Init ==
    /\ apiVersion \in ApiVersions
    /\ sharedStatus \in BOOLEAN
    /\ lastStatus = [k \in 0..NumThreads |-> 0]
    /\ pc = [t \in Threads |-> "idle"]
    /\ params = [t \in Threads |-> NoArgs]
    /\ slot \in [Threads -> Handles]
    /\ ret = [t \in Threads |-> << >>]
    /\ calls = [t \in Threads |-> << >>]
    /\ stores = [t \in Threads |-> 0]
    /\ own = [t \in Threads |-> NoOutcome]
    /\ interfered = [t \in Threads |-> FALSE]
    /\ entryStatus = [t \in Threads |-> 0]

\* thread t's caller invokes the wrapper; out_stream points to slot[t]
Call(t) ==
    /\ pc[t] = "idle"
    /\ pc' = [pc EXCEPT ![t] = "entered"]
    /\ params' = [params EXCEPT ![t] = CallerArgs(t)]
    /\ entryStatus' = [entryStatus EXCEPT ![t] = LastStatusQuery(t)]
    /\ UNCHANGED <<apiVersion, sharedStatus, lastStatus, slot, ret, calls,
                   stores, own, interfered>>

\* legacy body: the library's entry point returns status s and, when w, has
\* written h through the output parameter; the wrapper returns its value
LegacySetup(t, s, w, h) ==
    /\ pc[t] = "entered"
    /\ LegacyBuild
    /\ calls' = [calls EXCEPT ![t] = @ \o LegacyCalls(t, s)]
    /\ slot' = [slot EXCEPT ![t] = IF w THEN h ELSE @]
    /\ own' = [own EXCEPT ![t] =
                 [status |-> s, delivered |-> w, handle |-> IF w THEN h ELSE 0]]
    /\ ret' = [ret EXCEPT ![t] = <<LegacyReturn(t, s)>>]
    /\ pc' = [pc EXCEPT ![t] = "returned"]
    /\ UNCHANGED <<apiVersion, sharedStatus, lastStatus, params, stores,
                   interfered, entryStatus>>

\* modern body, the call: the library returns handle h and sets the calling
\* thread's last status to s
ModernSetup(t, s, h) ==
    /\ pc[t] = "entered"
    /\ ~LegacyBuild
    /\ calls' = [calls EXCEPT ![t] =
                   Append(@, [fn |-> "setupStream",
                              args |-> ModernCallArgs(t, params[t]),
                              result |-> h])]
    /\ lastStatus' = [lastStatus EXCEPT ![StatusKey(t)] = s]
    /\ own' = [own EXCEPT ![t] =
                 [status |-> s, delivered |-> TRUE, handle |-> h]]
    /\ interfered' = [u \in Threads |->
                        IF u # t /\ pc[u] \in {"setupDone", "stored"}
                        THEN TRUE ELSE interfered[u]]
    /\ pc' = [pc EXCEPT ![t] = "setupDone"]
    /\ UNCHANGED <<apiVersion, sharedStatus, params, slot, ret, stores,
                   entryStatus>>

\* modern body, the assignment *out_stream = <returned handle>
ModernStore(t) ==
    /\ pc[t] = "setupDone"
    /\ slot' = [slot EXCEPT ![t] = ModernStored(t, calls[t][1].result)]
    /\ stores' = [stores EXCEPT ![t] = @ + 1]
    /\ pc' = [pc EXCEPT ![t] = "stored"]
    /\ UNCHANGED <<apiVersion, sharedStatus, lastStatus, params, ret, calls,
                   own, interfered, entryStatus>>

\* modern body, return SoapySDRDevice_lastStatus()
ModernLastStatus(t) ==
    /\ pc[t] = "stored"
    /\ calls' = [calls EXCEPT ![t] = @ \o ModernReturnCalls(t)]
    /\ ret' = [ret EXCEPT ![t] = <<ModernReturn(t, LastStatusQuery(t))>>]
    /\ pc' = [pc EXCEPT ![t] = "returned"]
    /\ UNCHANGED <<apiVersion, sharedStatus, lastStatus, params, slot, stores,
                   own, interfered, entryStatus>>

\* the caller has taken the result; the thread may invoke the wrapper again
Consume(t) ==
    /\ pc[t] = "returned"
    /\ pc' = [pc EXCEPT ![t] = "idle"]
    /\ params' = [params EXCEPT ![t] = NoArgs]
    /\ ret' = [ret EXCEPT ![t] = << >>]
    /\ calls' = [calls EXCEPT ![t] = << >>]
    /\ stores' = [stores EXCEPT ![t] = 0]
    /\ own' = [own EXCEPT ![t] = NoOutcome]
    /\ interfered' = [interfered EXCEPT ![t] = FALSE]
    /\ entryStatus' = [entryStatus EXCEPT ![t] = 0]
    /\ UNCHANGED <<apiVersion, sharedStatus, lastStatus, slot>>

Next ==
    \E t \in Threads :
        \/ Call(t)
        \/ \E s \in Statuses, w \in BOOLEAN, h \in Handles : LegacySetup(t, s, w, h)
        \/ \E s \in Statuses, h \in Handles : ModernSetup(t, s, h)
        \/ ModernStore(t)
        \/ ModernLastStatus(t)
        \/ Consume(t)

Spec == Init /\ [][Next]_vars

\* ---------------------------------------------------------------- claims

Returned(t) == pc[t] = "returned"

\* the two sides of the version threshold, stated on the version itself
LegacyVersion == apiVersion < ApiThreshold

ModernVersion == apiVersion >= ApiThreshold

\* the library's own outcome is coherent: it delivered a handle, returned or
\* written through the output parameter, that is non-null exactly when the
\* status it reported is success
LibCoherent(t) ==
    /\ own[t].delivered
    /\ IsSuccess(own[t].status) <=> Usable(own[t].handle)

\* another thread's setup call overwrote the shared last status between the
\* thread's setup call and its status query
Raced(t) == sharedStatus /\ interfered[t]

CallNames(t) == [i \in 1..Len(calls[t]) |-> calls[t][i].fn]

\* C1 as stated: after every return, on either build and for every outcome
\* of the library, the returned status is success iff *out_stream holds a
\* usable handle.
C1_AlwaysCoherent ==
    \A t \in Threads :
        Returned(t) => (IsSuccess(ret[t][1]) <=> Usable(slot[t]))

\* C1 amended: after a return, provided the library's outcome for the
\* invocation is itself coherent and no other thread's setup call overwrote
\* a shared last status before the query, the returned status is success
\* iff *out_stream holds a usable handle.
C1_CoherentIfLibraryIs ==
    \A t \in Threads :
        (Returned(t) /\ LibCoherent(t) /\ ~Raced(t))
            => (IsSuccess(ret[t][1]) <=> Usable(slot[t]))

C1_Witness ==
    \E t \in Threads :
        /\ Returned(t) /\ LibCoherent(t) /\ ~Raced(t)
        /\ ~IsSuccess(ret[t][1]) /\ ~Usable(slot[t])
        /\ ModernVersion

\* the status and the handle the library handed to the invocation
LibStatusSeen(t) ==
    IF LegacyVersion THEN calls[t][1].result ELSE calls[t][2].result

LibHandleSeen(t) ==
    IF LegacyVersion THEN own[t].handle ELSE calls[t][1].result

\* C2: both builds map the library's outcome (status s, handle h) to the
\* same caller-visible result: whichever build runs, the wrapper returns s
\* and *out_stream holds h.
C2_BuildsAgree ==
    \A t \in Threads :
        (Returned(t) /\ own[t].delivered)
            => /\ ret[t] = <<LibStatusSeen(t)>>
               /\ slot[t] = LibHandleSeen(t)

C2_Witness ==
    \E t \in Threads :
        /\ LegacyVersion /\ Returned(t) /\ own[t].delivered
        /\ calls[t][1].result = -1 /\ own[t].handle = 0
        /\ ret[t] = <<-1>> /\ slot[t] = 0

\* C3: in a build at or above the threshold every invocation has called
\* setupStream then lastStatus, *out_stream holds exactly the handle the
\* former returned and the wrapper returned exactly what the latter returned.
C3_ModernPassThrough ==
    ModernVersion =>
        \A t \in Threads :
            Returned(t) =>
                /\ Len(calls[t]) = 2
                /\ calls[t][1].fn = "setupStream"
                /\ calls[t][2].fn = "lastStatus"
                /\ slot[t] = calls[t][1].result
                /\ ret[t] = <<calls[t][2].result>>

C3_Witness ==
    /\ apiVersion = ApiThreshold
    /\ \E t \in Threads :
        /\ Returned(t) /\ Len(calls[t]) = 2
        /\ calls[t][1].result = 0 /\ calls[t][2].result = -1
        /\ ret[t] = <<-1>> /\ ~Usable(slot[t])

\* C4: in a build below the threshold every invocation makes exactly one
\* call, to setupStream, returns that call's return value, and *out_stream
\* holds what the library wrote through the output parameter (and is left
\* as it was when the library wrote nothing).
C4_LegacyPassThrough ==
    /\ [](LegacyVersion =>
            \A t \in Threads :
                /\ Len(calls[t]) <= 1
                /\ Returned(t) =>
                    /\ Len(calls[t]) = 1
                    /\ calls[t][1].fn = "setupStream"
                    /\ ret[t] = <<calls[t][1].result>>
                    /\ own[t].delivered => slot[t] = own[t].handle)
    /\ [][LegacyVersion =>
            \A t \in Threads :
                (pc[t] = "entered" /\ pc'[t] = "returned" /\ ~own'[t].delivered)
                    => slot'[t] = slot[t]]_vars

C4_Witness ==
    \E t \in Threads :
        /\ LegacyVersion /\ Returned(t)
        /\ params[t].direction = 1 /\ params[t].format = "CF32"
        /\ params[t].channels = <<0, 1>> /\ params[t].numChans = 2
        /\ params[t].args = << >>
        /\ Len(calls[t]) = 1 /\ calls[t][1].result = 0
        /\ own[t].delivered /\ own[t].handle = 43981
        /\ ret[t] = <<0>> /\ slot[t] = 43981

\* C5: in the modern build the calls one invocation makes into the library
\* are, at every moment, a prefix of <<setupStream, lastStatus>>: the whole
\* of it at the return, the setup call alone from the setup call to the
\* query, nothing before.
C5_SetupThenLastStatus ==
    ModernVersion =>
        \A t \in Threads :
            /\ pc[t] \in {"idle", "entered"} => CallNames(t) = << >>
            /\ pc[t] \in {"setupDone", "stored"} => CallNames(t) = <<"setupStream">>
            /\ Returned(t) => CallNames(t) = <<"setupStream", "lastStatus">>

C5_Witness ==
    \E t \in Threads :
        /\ ModernVersion /\ Returned(t)
        /\ CallNames(t) = <<"setupStream", "lastStatus">>
        /\ calls[t][2].result = own[t].status

\* C6: in the modern build an invocation during which no other thread made
\* a setup call between its setup call and its status query returns the
\* status of its own setup call, and *out_stream holds the handle of that
\* same call.
C6_SerialisedCoherent ==
    ModernVersion =>
        \A t \in Threads :
            (Returned(t) /\ ~interfered[t])
                => /\ ret[t] = <<own[t].status>>
                   /\ slot[t] = own[t].handle

C6_Witness ==
    /\ ModernVersion /\ sharedStatus
    /\ \E t, u \in Threads :
        /\ t # u
        /\ Returned(t) /\ ~interfered[t]
        /\ pc[u] \in {"setupDone", "stored", "returned"}
        /\ own[u].status # own[t].status
        /\ ret[t] = <<own[t].status>> /\ slot[t] = own[t].handle

\* C7: on both builds the arguments that reach the library's setupStream
\* are the caller's, field by field, the legacy output parameter designates
\* the caller's slot, the wrapper calls nothing but setupStream and
\* lastStatus (it releases no stream), the caller's arguments do not change
\* during the invocation, and a thread's slot changes only inside its own
\* invocation.
C7_ArgumentsPassThrough ==
    /\ [](\A t \in Threads :
            Len(calls[t]) >= 1 =>
                /\ \A i \in 1..Len(calls[t]) :
                       calls[t][i].fn \in {"setupStream", "lastStatus"}
                /\ calls[t][1].args.device = params[t].device
                /\ calls[t][1].args.direction = params[t].direction
                /\ calls[t][1].args.format = params[t].format
                /\ calls[t][1].args.channels = params[t].channels
                /\ calls[t][1].args.numChans = params[t].numChans
                /\ calls[t][1].args.args = params[t].args
                /\ LegacyVersion => calls[t][1].args.stream = t)
    /\ [][\A t \in Threads :
            /\ (pc[t] # "idle" /\ pc'[t] # "idle") => params'[t] = params[t]
            /\ slot'[t] # slot[t] => pc[t] \in {"entered", "setupDone"}]_vars

C7_Witness ==
    \E t \in Threads :
        /\ ModernVersion /\ Returned(t)
        /\ params[t].channels = <<0, 1>>
        /\ calls[t][1].args.channels = <<0, 1>>
        /\ calls[t][1].args.numChans = 2

\* C8: an invocation returns a status other than the one its own setup call
\* produced only in the modern build, with a shared last status, when
\* another thread's setup call fell between its setup call and its query;
\* never in the legacy build.
C8_MismatchOnlyByRace ==
    \A t \in Threads :
        (Returned(t) /\ ret[t] # <<own[t].status>>)
            => (ModernVersion /\ sharedStatus /\ interfered[t])

\* the race happens: success is returned although the invocation's own
\* setup call failed and left a null handle in the slot
C8_Witness ==
    \E t \in Threads :
        /\ ModernVersion /\ sharedStatus
        /\ Returned(t) /\ interfered[t]
        /\ ~IsSuccess(own[t].status) /\ ~Usable(own[t].handle)
        /\ IsSuccess(ret[t][1]) /\ ~Usable(slot[t])

\* C9: whatever an earlier invocation left behind, an invocation that no
\* other thread interferes with reports the status of its own setup call,
\* success exactly when that call succeeded, and the handle that call
\* delivered.
C9_Stateless ==
    \A t \in Threads :
        (Returned(t) /\ ~interfered[t])
            => /\ ret[t] = <<own[t].status>>
               /\ IsSuccess(ret[t][1]) <=> IsSuccess(own[t].status)
               /\ own[t].delivered => slot[t] = own[t].handle

\* a successful invocation that follows the same thread's failed one
C9_Witness ==
    \E t \in Threads :
        /\ ModernVersion /\ ~sharedStatus
        /\ Returned(t) /\ ~interfered[t]
        /\ ~IsSuccess(entryStatus[t])
        /\ IsSuccess(own[t].status) /\ ret[t] = <<0>>

\* C10: in the modern build the wrapper has stored to *out_stream exactly
\* once from the assignment on, before the status query and whatever the
\* outcome, and the slot then holds what the setup call returned; in the
\* legacy build the wrapper never stores and the slot changes only when
\* the library writes through the output parameter.
C10_StoreOnce ==
    /\ [](ModernVersion =>
            \A t \in Threads :
                /\ stores[t] = IF pc[t] \in {"stored", "returned"} THEN 1 ELSE 0
                /\ pc[t] = "stored" => Len(calls[t]) = 1
                /\ pc[t] \in {"stored", "returned"} => slot[t] = own[t].handle)
    /\ [](LegacyVersion => \A t \in Threads : stores[t] = 0)
    /\ [][LegacyVersion =>
            \A t \in Threads :
                slot'[t] # slot[t]
                    => (own'[t].delivered /\ slot'[t] = own'[t].handle)]_vars

C10_Witness ==
    \E t \in Threads :
        /\ ModernVersion /\ Returned(t)
        /\ ~IsSuccess(ret[t][1])
        /\ stores[t] = 1
        /\ slot[t] = own[t].handle /\ ~Usable(slot[t])

====
